---- MODULE Spec2Model ----
(***************************************************************************)
(* Payroll payment orchestration of online-plan-pilot.                     *)
(*                                                                         *)
(* The store (the remote tables payroll, bank_accounts, bank_transactions, *)
(* notifications and working_hours) is shared by independent admin         *)
(* sessions, each showing PayrollComponent or WorkingHoursComponent with   *)
(* its own React state.  Every awaited store call of a handler is one      *)
(* step: the store executes the request and the handler runs on to its     *)
(* next request.                                                           *)
(*                                                                         *)
(* Spec, SpecSeq and SpecCore are about approving and paying the records   *)
(* of a table of two; SpecCreate adds the create form to a table that      *)
(* holds a paid record; SpecHours puts the working-hours page beside the   *)
(* create form; SpecEdit is about editing and deleting working hours;      *)
(* SpecRoster shows the action list of a roster beside the working-hours   *)
(* page.                                                                   *)
(***************************************************************************)
EXTENDS Integers, Sequences, FiniteSets

\* ---------------------------------------------------------------- bounds
MaxOpening == 1         \* opening balances range over 0..MaxOpening
MaxCalls == 2           \* payments started in one behaviour, over all sessions

\* The admin sessions: two independent instances of PayrollComponent.
Sessions == {"admin1", "admin2"}
PayrollIds == {1, 2}
AccountIds == {1, 2}
OpeningBalances == 0..MaxOpening

\* ------------------------------------------------------- program state
VARIABLES
  db_payroll,             \* table payroll: id -> row
  db_bank_accounts,       \* table bank_accounts: id -> row
  db_bank_transactions,   \* table bank_transactions: sequence of rows
  db_notifications,       \* table notifications: sequence of rows
  payrolls,               \* per session: the fetched payroll list
  loading,                \* per session: loading flag
  showBankSelectionDialog,    \* per session
  selectedPayrollForPayment,  \* per session: a row of payrolls, or NullPayroll
  toast,                  \* per session: the last toast shown
  pc,                     \* per session: position in handleConfirmPayment
  payroll,                \* per session: handleConfirmPayment's const payroll
  bankAccountId,          \* per session: handleConfirmPayment's argument
  currentBalance,         \* per session: handleConfirmPayment's currentBalance
  calls,                  \* payments started so far (bounds the behaviours)
  db_working_hours,       \* table working_hours: sequence of rows
  page,                   \* per session: the mounted component
  workingHours,           \* per session: the fetched working-hour list
  formData,               \* per session: the create-payroll form
  roster,                 \* per session: the roster prop of RosterActions
  isEditable,             \* per session: RosterActions' isEditable
  checking                \* per session: checkRosterEditability is awaiting its select

dbvars == <<db_payroll, db_bank_accounts, db_bank_transactions, db_notifications>>
uivars == <<payrolls, loading, showBankSelectionDialog, selectedPayrollForPayment, toast>>
hvars == <<pc, payroll, bankAccountId, currentBalance, calls>>
rvars == <<roster, isEditable, checking>>
whvars == <<db_working_hours, page, workingHours, formData, rvars>>
vars == <<dbvars, uivars, hvars, whvars>>

\* useState<PayrollType | null>(null)
NullPayroll ==
  [id |-> 0, profile_id |-> 0, pay_period_start |-> 0, pay_period_end |-> 0,
   total_hours |-> 0, hourly_rate |-> 0, gross_pay |-> 0, deductions |-> 0,
   net_pay |-> 0, status |-> "null", bank_account_id |-> 0]

NoAccount == 0
NoProfile == 0

\* calculatePayroll with the deductions added to the gross pay.
calculatePayrollAdding(hours, rate, deductions) ==
  [gross |-> hours * rate, net |-> hours * rate + deductions]

\* const gross = hours * rate; const net = gross - deductions
calculatePayroll(hours, rate, deductions) ==
  [gross |-> hours * rate, net |-> hours * rate - deductions]

\* A payroll row as handleSubmit inserts it: the form data with the computed
\* gross and net pay, status pending, no paying account.
NewPayrollRow(id, form) ==
  [id |-> id, profile_id |-> form.profile_id,
   pay_period_start |-> form.pay_period_start,
   pay_period_end |-> form.pay_period_end,
   total_hours |-> form.total_hours, hourly_rate |-> form.hourly_rate,
   gross_pay |-> calculatePayroll(form.total_hours, form.hourly_rate,
                                  form.deductions).gross,
   deductions |-> form.deductions,
   net_pay |-> calculatePayroll(form.total_hours, form.hourly_rate,
                                form.deductions).net,
   status |-> "pending", bank_account_id |-> NoAccount]

\* The forms the records of the initial table were created from: record 1 has
\* net pay 1 (1 h at 2, deductions 1), record 2 net pay 2 (2 h at 1), each for
\* its own worker and month.
InitialForm(id) ==
  [profile_id |-> id, pay_period_start |-> 10 * id + 1, pay_period_end |-> 10 * id + 9,
   total_hours |-> id, hourly_rate |-> 3 - id, deductions |-> 2 - id]

\* A ledger row entered on another screen before the sessions start.
OtherRow(type, amount, acct) ==
  [description |-> <<0, 0, 0>>, amount |-> amount, type |-> type,
   category |-> "other", profile_id |-> NoProfile, bank_account_id |-> acct]

\* Account 1 is a house account, account 2 belongs to worker 2.
InitialLedgers ==
  { <<>>,
    <<OtherRow("deposit", 2, 1), OtherRow("withdrawal", 1, 1), OtherRow("deposit", 1, 2)>> }

\* The create-payroll form of useState: no worker, no dates, zeros.
NoDate == 0
InitialFormData ==
  [profile_id |-> NoProfile, pay_period_start |-> NoDate, pay_period_end |-> NoDate,
   total_hours |-> 0, hourly_rate |-> 0, deductions |-> 0]

\* The values the form's inputs are given: the workers of ProfileSelector, the
\* days of the date inputs (the month of InitialForm(1) holds them) and the
\* amounts typed into the deductions input.
ProfileIds == {1, 2}
Dates == {11, 15}
DeductionInputs == {-1, 0, 1}

\* A row of table working_hours.
WorkingHourRow(id, profile, date, hours, rate, status) ==
  [id |-> id, profile_id |-> profile, date |-> date, total_hours |-> hours,
   hourly_rate |-> rate, status |-> status]

\* The working-hour table the sessions start from: worker 1 worked 5 h at 20
\* on day 11 and 3 h at 30 on day 15, worker 2 worked 2 h at 10 on day 15; the
\* first entry is approved, the other two have the given statuses.
InitialWorkingHours(status2, status3) ==
  << WorkingHourRow(1, 1, 11, 5, 20, "approved"),
     WorkingHourRow(2, 1, 15, 3, 30, status2),
     WorkingHourRow(3, 2, 15, 2, 10, status3) >>

\* ------------------------------------------------------ balance (pure)
\* transactions.reduce((sum, t) => sum + (t.type === 'deposit' ? t.amount : -t.amount), 0)
RECURSIVE ReduceTransactions(_)
ReduceTransactions(rows) ==
  IF rows = <<>> THEN 0
  ELSE LET t == rows[Len(rows)]
       IN ReduceTransactions(SubSeq(rows, 1, Len(rows) - 1))
          + (IF t.type = "deposit" THEN t.amount ELSE 0 - t.amount)

\* SelectTransactions without its .eq('bank_account_id', ...) filter.
SelectTransactionsOfAllAccounts(table, acct) == table

\* .from('bank_transactions').select('amount, type').eq('bank_account_id', bankAccountId)
SelectTransactions(table, acct) ==
  SelectSeq(table, LAMBDA t : t.bank_account_id = acct)

\* const currentBalance = bankAccount.opening_balance + transactions.reduce(...)
ComputeBalance(opening, transactions) ==
  opening + ReduceTransactions(transactions)

\* InsufficientBalance with <= for <.
InsufficientBalanceOrEqual(balance, net) == balance <= net

\* if (currentBalance < payroll.net_pay)
InsufficientBalance(balance, net) == balance < net

\* ------------------------------------------------- aggregation (pure)
\* PayrollComponent.fetchWorkingHours: .from('working_hours').select(...)
\* .eq('status', 'approved')
fetchWorkingHours(table) ==
  SelectSeq(table, LAMBDA wh : wh.status = "approved")

\* profileWorkingHours with the end of the range left out.
profileWorkingHoursBeforeEnd(list, profile, start, end) ==
  SelectSeq(list, LAMBDA wh :
    wh.profile_id = profile /\ wh.date >= start /\ wh.date < end)

\* workingHours.filter(wh => wh.profile_id === profile && wh.date >= start
\* && wh.date <= end); ISO dates compare as strings in date order.
profileWorkingHours(list, profile, start, end) ==
  SelectSeq(list, LAMBDA wh :
    wh.profile_id = profile /\ wh.date >= start /\ wh.date <= end)

\* rows.reduce((sum, wh) => sum + wh.total_hours, 0)
RECURSIVE SumHours(_)
SumHours(rows) ==
  IF rows = <<>> THEN 0
  ELSE SumHours(SubSeq(rows, 1, Len(rows) - 1)) + rows[Len(rows)].total_hours

\* rows.reduce((sum, wh) => sum + (wh.hourly_rate || 0), 0)
RECURSIVE SumRates(_)
SumRates(rows) ==
  IF rows = <<>> THEN 0
  ELSE SumRates(SubSeq(rows, 1, Len(rows) - 1)) + rows[Len(rows)].hourly_rate

\* rows.length > 0 ? rows.reduce(...) / rows.length : 0.  The quotient of the
\* code is a floating-point division; the rates of InitialWorkingHours make it
\* exact (20, 30, 10 and (20 + 30) / 2 = 25), so the integer quotient is it.
avgHourlyRate(rows) ==
  IF Len(rows) > 0 THEN SumRates(rows) \div Len(rows) ELSE 0

\* The aggregation effect on [profile_id, pay_period_start, pay_period_end,
\* workingHours]: with all three set, total_hours and hourly_rate are
\* recomputed from the list; otherwise the form is left as it is.
AggregateForm(form, list) ==
  IF /\ form.profile_id # NoProfile
     /\ form.pay_period_start # NoDate
     /\ form.pay_period_end # NoDate
  THEN LET rows == profileWorkingHours(list, form.profile_id,
                                       form.pay_period_start, form.pay_period_end)
       IN [form EXCEPT !.total_hours = SumHours(rows),
                       !.hourly_rate = avgHourlyRate(rows)]
  ELSE form

\* ------------------------------------------------------------- Init
\* No roster shown.
NullRoster == [id |-> 0, status |-> "none"]

\* No RosterActions component is mounted.
NoRosterActions ==
  /\ roster = [s \in Sessions |-> NullRoster]
  /\ isEditable = [s \in Sessions |-> TRUE]
  /\ checking = [s \in Sessions |-> FALSE]

Init ==
  /\ db_payroll = [id \in PayrollIds |-> NewPayrollRow(id, InitialForm(id))]
  /\ \E o \in OpeningBalances :
       db_bank_accounts =
         [a \in AccountIds |->
            [opening_balance |-> o, profile_id |-> IF a = 1 THEN NoProfile ELSE a]]
  /\ db_bank_transactions \in InitialLedgers
  /\ db_notifications = <<>>
  /\ payrolls = [s \in Sessions |-> db_payroll]
  /\ loading = [s \in Sessions |-> FALSE]
  /\ showBankSelectionDialog = [s \in Sessions |-> FALSE]
  /\ selectedPayrollForPayment = [s \in Sessions |-> NullPayroll]
  /\ toast = [s \in Sessions |-> "none"]
  /\ pc = [s \in Sessions |-> "idle"]
  /\ payroll = [s \in Sessions |-> NullPayroll]
  /\ bankAccountId = [s \in Sessions |-> NoAccount]
  /\ currentBalance = [s \in Sessions |-> 0]
  /\ calls = 0
  /\ db_working_hours = <<>>
  /\ page = [s \in Sessions |-> "payroll"]
  /\ workingHours = [s \in Sessions |-> fetchWorkingHours(db_working_hours)]
  /\ formData = [s \in Sessions |-> InitialFormData]
  /\ NoRosterActions

\* ---------------------------------------------------------- handlers
\* handleMarkAsPaid(payroll): setSelectedPayrollForPayment(payroll);
\* setShowBankSelectionDialog(true).  The function itself looks at no status.
handleMarkAsPaid(s, p) ==
  /\ selectedPayrollForPayment' = [selectedPayrollForPayment EXCEPT ![s] = payrolls[s][p]]
  /\ showBankSelectionDialog' = [showBankSelectionDialog EXCEPT ![s] = TRUE]
  /\ UNCHANGED <<dbvars, payrolls, loading, toast, hvars, whvars>>

\* The Mark Paid button: rendered for a list row whose status is approved,
\* disabled while loading; its onClick is handleMarkAsPaid.
MarkAsPaid(s, p) ==
  /\ payrolls[s][p].status = "approved"
  /\ ~loading[s]
  /\ handleMarkAsPaid(s, p)

\* onClose of the bank selection dialog: setShowBankSelectionDialog(false)
CloseDialog(s) ==
  /\ showBankSelectionDialog[s]
  /\ showBankSelectionDialog' = [showBankSelectionDialog EXCEPT ![s] = FALSE]
  /\ UNCHANGED <<dbvars, payrolls, loading, selectedPayrollForPayment, toast, hvars,
                 whvars>>

\* fetchPayrolls as the handlers call it: setPayrolls with the table as the
\* store then holds it.  (Its finally resets the loading flag; a failed select
\* leaves the list stale, as the other sessions' writes do anyway.)
fetchPayrolls(s, table) ==
  [payrolls EXCEPT ![s] = table]

\* fetchBankAccounts: .from('bank_accounts').select('*').is('profile_id', null);
\* the accounts the bank selection dialog offers.
bankAccounts == { a \in DOMAIN db_bank_accounts : db_bank_accounts[a].profile_id = NoProfile }

\* .from('payroll').update({ status }).eq('id', id)
UpdateStatus(table, id, status) ==
  [table EXCEPT ![id].status = status]

\* updatePayrollStatus(id, 'approved'), behind the Approve button of a pending
\* list row.
ApprovePayroll(s, id) ==
  /\ payrolls[s][id].status = "pending"
  /\ \E ok \in BOOLEAN :
       IF ok
       THEN /\ db_payroll' = UpdateStatus(db_payroll, id, "approved")
            /\ toast' = [toast EXCEPT ![s] = "Payroll approved successfully"]
            /\ payrolls' = fetchPayrolls(s, db_payroll')
            /\ loading' = [loading EXCEPT ![s] = FALSE]
       ELSE /\ toast' = [toast EXCEPT ![s] = "Failed to update payroll status"]
            /\ UNCHANGED <<db_payroll, payrolls, loading>>
  /\ UNCHANGED <<db_bank_accounts, db_bank_transactions, db_notifications,
                 showBankSelectionDialog, selectedPayrollForPayment, hvars, whvars>>

\* Leaving handleConfirmPayment: its locals go out of scope.
ExitHandler(s) ==
  /\ UNCHANGED <<calls, whvars>>
  /\ pc' = [pc EXCEPT ![s] = "idle"]
  /\ payroll' = [payroll EXCEPT ![s] = NullPayroll]
  /\ bankAccountId' = [bankAccountId EXCEPT ![s] = NoAccount]
  /\ currentBalance' = [currentBalance EXCEPT ![s] = 0]

\* ThrowError writing a notification of the failure.
ThrowErrorNotifying(s) ==
  /\ toast' = [toast EXCEPT ![s] = "Failed to process payment"]
  /\ loading' = [loading EXCEPT ![s] = FALSE]
  /\ ExitHandler(s)
  /\ db_notifications' =
       Append(db_notifications,
              [type |-> "payment_failed", amount |-> 0,
               recipient_profile_id |-> payroll[s].profile_id,
               related_id |-> payroll[s].id])
  /\ UNCHANGED <<db_payroll, db_bank_accounts, db_bank_transactions, payrolls,
                 showBankSelectionDialog, selectedPayrollForPayment>>

\* ThrowError closing the dialog and clearing the selection.
ThrowErrorClosingDialog(s) ==
  /\ toast' = [toast EXCEPT ![s] = "Failed to process payment"]
  /\ loading' = [loading EXCEPT ![s] = FALSE]
  /\ ExitHandler(s)
  /\ showBankSelectionDialog' = [showBankSelectionDialog EXCEPT ![s] = FALSE]
  /\ selectedPayrollForPayment' = [selectedPayrollForPayment EXCEPT ![s] = NullPayroll]
  /\ UNCHANGED <<dbvars, payrolls>>

\* catch (error) { toast Error } finally { setLoading(false) }
ThrowError(s) ==
  /\ toast' = [toast EXCEPT ![s] = "Failed to process payment"]
  /\ loading' = [loading EXCEPT ![s] = FALSE]
  /\ ExitHandler(s)
  /\ UNCHANGED <<dbvars, payrolls, showBankSelectionDialog, selectedPayrollForPayment>>

\* handleConfirmPayment(bankAccountId) up to its first await.
handleConfirmPayment(s, b) ==
  /\ pc[s] = "idle"
  /\ IF selectedPayrollForPayment[s] = NullPayroll
     THEN UNCHANGED vars
     ELSE /\ calls < MaxCalls
          /\ calls' = calls + 1
          /\ loading' = [loading EXCEPT ![s] = TRUE]
          /\ payroll' = [payroll EXCEPT ![s] = selectedPayrollForPayment[s]]
          /\ bankAccountId' = [bankAccountId EXCEPT ![s] = b]
          /\ pc' = [pc EXCEPT ![s] = "bank_accounts"]
          /\ UNCHANGED <<dbvars, payrolls, showBankSelectionDialog,
                         selectedPayrollForPayment, toast, currentBalance, whvars>>

\* onConfirm of the open bank selection dialog (isOpen), with one of
\* bankAccounts.
ConfirmPayment(s, b) ==
  /\ showBankSelectionDialog[s]
  /\ handleConfirmPayment(s, b)

\* .from('bank_accounts').select('opening_balance').eq('id', bankAccountId).single()
ReadBankAccount(s) ==
  /\ pc[s] = "bank_accounts"
  /\ \E ok \in BOOLEAN :
       IF ok /\ bankAccountId[s] \in DOMAIN db_bank_accounts
       THEN /\ pc' = [pc EXCEPT ![s] = "transactions"]
            /\ UNCHANGED <<dbvars, uivars, payroll, bankAccountId, currentBalance, calls,
                           whvars>>
       ELSE ThrowError(s)

\* The ledger read, the balance and the funds check.
ReadTransactions(s) ==
  /\ pc[s] = "transactions"
  /\ \E ok \in BOOLEAN :
       IF ok
       THEN LET transactions == SelectTransactions(db_bank_transactions, bankAccountId[s])
                balance == ComputeBalance(db_bank_accounts[bankAccountId[s]].opening_balance,
                                          transactions)
            IN IF InsufficientBalance(balance, payroll[s].net_pay)
               THEN /\ toast' = [toast EXCEPT ![s] = "Insufficient Balance"]
                    /\ loading' = [loading EXCEPT ![s] = FALSE]
                    /\ ExitHandler(s)
                    /\ UNCHANGED <<dbvars, payrolls, showBankSelectionDialog,
                                   selectedPayrollForPayment>>
               ELSE /\ currentBalance' = [currentBalance EXCEPT ![s] = balance]
                    /\ pc' = [pc EXCEPT ![s] = "insert"]
                    /\ UNCHANGED <<dbvars, uivars, payroll, bankAccountId, calls, whvars>>
       ELSE ThrowError(s)

\* WithdrawalRow with the deductions taken off the net pay once more.
WithdrawalRowLessDeductions(p, acct) ==
  [description |-> <<p.profile_id, p.pay_period_start, p.pay_period_end>>,
   amount |-> p.net_pay - p.deductions, type |-> "withdrawal", category |-> "salary",
   profile_id |-> p.profile_id, bank_account_id |-> acct]

\* WithdrawalRow with the gross pay for the net pay.
WithdrawalRowOfGrossPay(p, acct) ==
  [description |-> <<p.profile_id, p.pay_period_start, p.pay_period_end>>,
   amount |-> p.gross_pay, type |-> "withdrawal", category |-> "salary",
   profile_id |-> p.profile_id, bank_account_id |-> acct]

\* The row of .from('bank_transactions').insert({...})
WithdrawalRow(p, acct) ==
  [description |-> <<p.profile_id, p.pay_period_start, p.pay_period_end>>,
   amount |-> p.net_pay, type |-> "withdrawal", category |-> "salary",
   profile_id |-> p.profile_id, bank_account_id |-> acct]

\* InsertTransaction writing over the last row of a ledger that has one.
InsertTransactionOverLastRow(s) ==
  /\ pc[s] = "insert"
  /\ \E ok \in BOOLEAN :
       IF ok
       THEN /\ db_bank_transactions' =
                 IF db_bank_transactions = <<>>
                 THEN <<WithdrawalRow(payroll[s], bankAccountId[s])>>
                 ELSE [db_bank_transactions EXCEPT ![Len(db_bank_transactions)] =
                         WithdrawalRow(payroll[s], bankAccountId[s])]
            /\ pc' = [pc EXCEPT ![s] = "update"]
            /\ UNCHANGED <<db_payroll, db_bank_accounts, db_notifications, uivars,
                           payroll, bankAccountId, currentBalance, calls, whvars>>
       ELSE ThrowError(s)

InsertTransaction(s) ==
  /\ pc[s] = "insert"
  /\ \E ok \in BOOLEAN :
       IF ok
       THEN /\ db_bank_transactions' =
                 Append(db_bank_transactions, WithdrawalRow(payroll[s], bankAccountId[s]))
            /\ pc' = [pc EXCEPT ![s] = "update"]
            /\ UNCHANGED <<db_payroll, db_bank_accounts, db_notifications, uivars,
                           payroll, bankAccountId, currentBalance, calls, whvars>>
       ELSE ThrowError(s)

\* UpdatePaid without its filter on the id.
UpdatePaidEveryRow(table, id, acct) ==
  [i \in DOMAIN table |-> [table[i] EXCEPT !.status = "paid", !.bank_account_id = acct]]

\* .from('payroll').update({ status: 'paid', bank_account_id: bankAccountId }).eq('id', payroll.id)
UpdatePaid(table, id, acct) ==
  [table EXCEPT ![id].status = "paid", ![id].bank_account_id = acct]

UpdatePayroll(s) ==
  /\ pc[s] = "update"
  /\ \E ok \in BOOLEAN :
       IF ok
       THEN /\ db_payroll' = UpdatePaid(db_payroll, payroll[s].id, bankAccountId[s])
            /\ pc' = [pc EXCEPT ![s] = "notify"]
            /\ UNCHANGED <<db_bank_accounts, db_bank_transactions, db_notifications,
                           uivars, payroll, bankAccountId, currentBalance, calls, whvars>>
       ELSE ThrowError(s)

\* NotificationRow without its related id.
NotificationRowUnrelated(p) ==
  [type |-> "salary_paid", recipient_profile_id |-> p.profile_id,
   related_id |-> 0, amount |-> p.net_pay]

\* The row of .from('notifications').insert({...})
NotificationRow(p) ==
  [type |-> "salary_paid", recipient_profile_id |-> p.profile_id,
   related_id |-> p.id, amount |-> p.net_pay]

\* InsertNotification with a failed write thrown to the catch block.
InsertNotificationOrThrow(s) ==
  /\ pc[s] = "notify"
  /\ \E ok \in BOOLEAN :
       IF ok
       THEN /\ db_notifications' = Append(db_notifications, NotificationRow(payroll[s]))
            /\ toast' = [toast EXCEPT ![s] = "Payment processed successfully"]
            /\ showBankSelectionDialog' = [showBankSelectionDialog EXCEPT ![s] = FALSE]
            /\ selectedPayrollForPayment' =
                 [selectedPayrollForPayment EXCEPT ![s] = NullPayroll]
            /\ payrolls' = fetchPayrolls(s, db_payroll)
            /\ loading' = [loading EXCEPT ![s] = FALSE]
            /\ ExitHandler(s)
            /\ UNCHANGED <<db_payroll, db_bank_accounts, db_bank_transactions>>
       ELSE ThrowError(s)

\* The notification write and the rest of the try block; a failed write is
\* only logged.
InsertNotification(s) ==
  /\ pc[s] = "notify"
  /\ \E ok \in BOOLEAN :
       /\ db_notifications' =
            IF ok THEN Append(db_notifications, NotificationRow(payroll[s]))
            ELSE db_notifications
       /\ toast' = [toast EXCEPT ![s] = "Payment processed successfully"]
       /\ showBankSelectionDialog' = [showBankSelectionDialog EXCEPT ![s] = FALSE]
       /\ selectedPayrollForPayment' = [selectedPayrollForPayment EXCEPT ![s] = NullPayroll]
       /\ payrolls' = fetchPayrolls(s, db_payroll)
       /\ loading' = [loading EXCEPT ![s] = FALSE]
  /\ ExitHandler(s)
  /\ UNCHANGED <<db_payroll, db_bank_accounts, db_bank_transactions>>

SessionStep(s) ==
  \/ \E p \in DOMAIN payrolls[s] : MarkAsPaid(s, p)
  \/ CloseDialog(s)
  \/ \E id \in DOMAIN payrolls[s] : ApprovePayroll(s, id)
  \/ \E b \in bankAccounts : ConfirmPayment(s, b)
  \/ ReadBankAccount(s)
  \/ ReadTransactions(s)
  \/ InsertTransaction(s)
  \/ UpdatePayroll(s)
  \/ InsertNotification(s)

Next == \E s \in Sessions : SessionStep(s)

Spec == Init /\ [][Next]_vars

\* The sessions taking turns: a session moves only while no other session has
\* a payment in flight, so every payment runs without interference.
NextSeq ==
  \E s \in Sessions :
    /\ \A t \in Sessions \ {s} : pc[t] = "idle"
    /\ SessionStep(s)

SpecSeq == Init /\ [][NextSeq]_vars

\* The payment operation called as an interface, Pay(payrollId, bankAccountId):
\* handleMarkAsPaid and handleConfirmPayment invoked on any row of the
\* session's list that is pending, which the list shows no Mark Paid button for, the
\* sessions taking turns.
PayPendingRow(s) ==
  /\ pc[s] = "idle"
  /\ ~showBankSelectionDialog[s]
  /\ \E p \in PayrollIds :
       /\ payrolls[s][p].status = "pending"
       /\ handleMarkAsPaid(s, p)

NextCore ==
  \E s \in Sessions :
    /\ \A t \in Sessions \ {s} : pc[t] = "idle"
    /\ \/ PayPendingRow(s)
       \/ SessionStep(s)

SpecCore == Init /\ [][NextCore]_vars

\* An id no row of bank_accounts has.
MissingAccount == 3

\* onConfirm with the id of an account that is no longer in the table.
ConfirmMissingAccount(s) == ConfirmPayment(s, MissingAccount)

NextAccounts ==
  \E s \in Sessions :
    /\ \A t \in Sessions \ {s} : pc[t] = "idle"
    /\ \/ ConfirmMissingAccount(s)
       \/ SessionStep(s)

SpecAccounts == Init /\ [][NextAccounts]_vars

\* ------------------------------------------------- the create-payroll form
\* The create dialog in use: on the payroll page, with no bank selection
\* dialog over it; one create dialog is filled in at a time, while the table
\* has room for a record.
CreateDialogInUse(s) ==
  /\ page[s] = "payroll"
  /\ ~showBankSelectionDialog[s]
  /\ \A t \in Sessions \ {s} : formData[t] = InitialFormData
  /\ PayrollIds \ DOMAIN db_payroll # {}

\* setFormData followed by the aggregation effect it triggers.
setFormData(s, form) ==
  /\ CreateDialogInUse(s)
  /\ formData' = [formData EXCEPT ![s] = AggregateForm(form, workingHours[s])]
  /\ UNCHANGED <<dbvars, uivars, hvars, rvars, db_working_hours, page, workingHours>>

\* onProfileSelect of ProfileSelector
onProfileSelect(s, profileId) ==
  setFormData(s, [formData[s] EXCEPT !.profile_id = profileId])

\* onChange of the Period Start input
onPeriodStartChange(s, d) ==
  setFormData(s, [formData[s] EXCEPT !.pay_period_start = d])

\* onChange of the Period End input
onPeriodEndChange(s, d) ==
  setFormData(s, [formData[s] EXCEPT !.pay_period_end = d])

\* onChange of the Deductions input: parseFloat(e.target.value) || 0, whatever
\* its sign and size.
onDeductionsChange(s, x) ==
  setFormData(s, [formData[s] EXCEPT !.deductions = x])

\* The current month of generatePayrollForProfile: the month of InitialForm(1).
MonthStart == 11
MonthEnd == 19

\* generatePayrollForProfile(profileId): the form for the current month, with
\* the hours and the rate of the worker's listed entries of the month.
generatePayrollForProfile(s, profileId) ==
  LET rows == profileWorkingHours(workingHours[s], profileId, MonthStart, MonthEnd)
  IN setFormData(s, [profile_id |-> profileId, pay_period_start |-> MonthStart,
                     pay_period_end |-> MonthEnd, total_hours |-> SumHours(rows),
                     hourly_rate |-> avgHourlyRate(rows), deductions |-> 0])

\* .from('payroll').insert([row]): the store gives the row the next free id.
NextPayrollId(table) ==
  CHOOSE id \in PayrollIds \ DOMAIN table :
    \A other \in PayrollIds \ DOMAIN table : id <= other

InsertPayroll(table, row) ==
  [id \in DOMAIN table \cup {row.id} |-> IF id = row.id THEN row ELSE table[id]]

\* handleSubmit of the create form.  The date inputs are required, so the
\* browser submits only with both set; the store refuses a row without a
\* worker (profile_id is a foreign key) and may fail otherwise; nothing else
\* is checked before the insert.
handleSubmit(s) ==
  /\ CreateDialogInUse(s)
  /\ ~loading[s]
  /\ formData[s].pay_period_start # NoDate
  /\ formData[s].pay_period_end # NoDate
  /\ \E ok \in BOOLEAN :
       IF ok /\ formData[s].profile_id # NoProfile
       THEN /\ db_payroll' =
                 InsertPayroll(db_payroll, NewPayrollRow(NextPayrollId(db_payroll), formData[s]))
            /\ toast' = [toast EXCEPT ![s] = "Payroll record created successfully"]
            /\ formData' = [formData EXCEPT ![s] = InitialFormData]
            /\ payrolls' = fetchPayrolls(s, db_payroll')
       ELSE /\ toast' = [toast EXCEPT ![s] = "Failed to create payroll record"]
            /\ UNCHANGED <<db_payroll, formData, payrolls>>
  /\ loading' = [loading EXCEPT ![s] = FALSE]
  /\ UNCHANGED <<db_bank_accounts, db_bank_transactions, db_notifications,
                 showBankSelectionDialog, selectedPayrollForPayment, hvars, rvars,
                 db_working_hours, page, workingHours>>

\* The workers the Quick Generate card lists: those with a listed entry.
profilesWithHours(s) ==
  { workingHours[s][i].profile_id : i \in 1..Len(workingHours[s]) }

FormStep(s) ==
  \/ \E profileId \in ProfileIds : onProfileSelect(s, profileId)
  \/ \E d \in Dates \cup {NoDate} : onPeriodStartChange(s, d)
  \/ \E d \in Dates \cup {NoDate} : onPeriodEndChange(s, d)
  \/ \E x \in DeductionInputs : onDeductionsChange(s, x)
  \/ \E profileId \in profilesWithHours(s) : generatePayrollForProfile(s, profileId)
  \/ handleSubmit(s)

\* The store when a session opens the create form: record 1 has been paid
\* from house account 1, which a deposit of 100 has funded.
PaidRecord ==
  [NewPayrollRow(1, InitialForm(1)) EXCEPT !.status = "paid", !.bank_account_id = 1]

InitPaidStore ==
  /\ db_payroll = [id \in {1} |-> PaidRecord]
  /\ db_bank_accounts =
       [a \in AccountIds |->
          [opening_balance |-> MaxOpening, profile_id |-> IF a = 1 THEN NoProfile ELSE a]]
  /\ db_bank_transactions = <<OtherRow("deposit", 100, 1), WithdrawalRow(PaidRecord, 1)>>
  /\ db_notifications = <<NotificationRow(PaidRecord)>>
  /\ payrolls = [s \in Sessions |-> db_payroll]
  /\ loading = [s \in Sessions |-> FALSE]
  /\ showBankSelectionDialog = [s \in Sessions |-> FALSE]
  /\ selectedPayrollForPayment = [s \in Sessions |-> NullPayroll]
  /\ toast = [s \in Sessions |-> "none"]
  /\ pc = [s \in Sessions |-> "idle"]
  /\ payroll = [s \in Sessions |-> NullPayroll]
  /\ bankAccountId = [s \in Sessions |-> NoAccount]
  /\ currentBalance = [s \in Sessions |-> 0]
  /\ calls = 0
  /\ page = [s \in Sessions |-> "payroll"]
  /\ formData = [s \in Sessions |-> InitialFormData]
  /\ NoRosterActions

InitCreate ==
  /\ InitPaidStore
  /\ db_working_hours = InitialWorkingHours("approved", "approved")
  /\ workingHours = [s \in Sessions |-> fetchWorkingHours(db_working_hours)]

\* Creating, approving and paying.
NextCreate ==
  \E s \in Sessions :
    \/ FormStep(s)
    \/ SessionStep(s)

SpecCreate == InitCreate /\ [][NextCreate]_vars

\* ------------------------------------------------ the working-hours page
\* Mounting PayrollComponent: fresh state, and the mount effect's fetches.
OpenPayrollPage(s) ==
  /\ page[s] = "working_hours"
  /\ page' = [page EXCEPT ![s] = "payroll"]
  /\ workingHours' = [workingHours EXCEPT ![s] = fetchWorkingHours(db_working_hours)]
  /\ formData' = [formData EXCEPT ![s] = InitialFormData]
  /\ payrolls' = fetchPayrolls(s, db_payroll)
  /\ loading' = [loading EXCEPT ![s] = FALSE]
  /\ showBankSelectionDialog' = [showBankSelectionDialog EXCEPT ![s] = FALSE]
  /\ selectedPayrollForPayment' = [selectedPayrollForPayment EXCEPT ![s] = NullPayroll]
  /\ UNCHANGED <<dbvars, toast, hvars, rvars, db_working_hours>>

\* Mounting WorkingHoursComponent, which unmounts PayrollComponent: its
\* fetchWorkingHours selects the rows of every status.
OpenWorkingHoursPage(s) ==
  /\ page[s] = "payroll"
  /\ pc[s] = "idle"
  /\ page' = [page EXCEPT ![s] = "working_hours"]
  /\ workingHours' = [workingHours EXCEPT ![s] = db_working_hours]
  /\ formData' = [formData EXCEPT ![s] = InitialFormData]
  /\ showBankSelectionDialog' = [showBankSelectionDialog EXCEPT ![s] = FALSE]
  /\ selectedPayrollForPayment' = [selectedPayrollForPayment EXCEPT ![s] = NullPayroll]
  /\ UNCHANGED <<dbvars, payrolls, loading, toast, hvars, rvars, db_working_hours>>

\* .from('working_hours').update({ status }).eq('id', id)
UpdateWorkingHourStatus(table, id, status) ==
  [i \in DOMAIN table |->
     IF table[i].id = id THEN [table[i] EXCEPT !.status = status] ELSE table[i]]

\* WorkingHoursComponent.handleUpdateStatus(id, status), behind the Approve and
\* Reject buttons of a row the list shows as pending.
handleUpdateStatus(s, i, status) ==
  /\ page[s] = "working_hours"
  /\ workingHours[s][i].status = "pending"
  /\ \E ok \in BOOLEAN :
       IF ok
       THEN /\ db_working_hours' =
                 UpdateWorkingHourStatus(db_working_hours, workingHours[s][i].id, status)
            /\ toast' = [toast EXCEPT ![s] =
                 IF status = "approved" THEN "Working hour approved successfully"
                 ELSE "Working hour rejected successfully"]
            /\ workingHours' = [workingHours EXCEPT ![s] = db_working_hours']
       ELSE /\ toast' = [toast EXCEPT ![s] = "Failed to update status"]
            /\ UNCHANGED <<db_working_hours, workingHours>>
  /\ UNCHANGED <<dbvars, payrolls, loading, showBankSelectionDialog,
                 selectedPayrollForPayment, hvars, rvars, page, formData>>

\* The sessions start on the payroll page; entries 2 and 3 are pending or
\* approved.
InitHours ==
  /\ InitPaidStore
  /\ \E status2, status3 \in {"pending", "approved"} :
       db_working_hours = InitialWorkingHours(status2, status3)
  /\ workingHours = [s \in Sessions |-> fetchWorkingHours(db_working_hours)]

\* Reviewing working hours and creating payroll records, the deductions of
\* the form left at 0.
NextHours ==
  \E s \in Sessions :
    \/ OpenPayrollPage(s)
    \/ OpenWorkingHoursPage(s)
    \/ \E i \in DOMAIN workingHours[s], status \in {"approved", "rejected"} :
         handleUpdateStatus(s, i, status)
    \/ \E profileId \in ProfileIds : onProfileSelect(s, profileId)
    \/ \E d \in Dates \cup {NoDate} : onPeriodStartChange(s, d)
    \/ \E d \in Dates \cup {NoDate} : onPeriodEndChange(s, d)
    \/ \E profileId \in profilesWithHours(s) : generatePayrollForProfile(s, profileId)
    \/ handleSubmit(s)

SpecHours == InitHours /\ [][NextHours]_vars

\* ------------------------------------- editing and deleting working hours
\* The hours an edit form is submitted with.
EditedHours == {4}

\* .from('working_hours').update({ date, ..., total_hours, ..., hourly_rate,
\* ... }).eq('id', id)
UpdateWorkingHourData(table, id, date, hours, rate) ==
  [i \in DOMAIN table |->
     IF table[i].id = id
     THEN [table[i] EXCEPT !.date = date, !.total_hours = hours, !.hourly_rate = rate]
     ELSE table[i]]

\* handleEditSubmit(updatedData) for the entry the Edit action was taken on:
\* the form holds the listed entry with its hours changed.
handleEditSubmit(s, i, hours) ==
  /\ page[s] = "working_hours"
  /\ \E ok \in BOOLEAN :
       IF ok
       THEN /\ db_working_hours' =
                 UpdateWorkingHourData(db_working_hours, workingHours[s][i].id,
                                       workingHours[s][i].date, hours,
                                       workingHours[s][i].hourly_rate)
            /\ toast' = [toast EXCEPT ![s] = "Working hours updated successfully"]
            /\ workingHours' = [workingHours EXCEPT ![s] = db_working_hours']
       ELSE /\ toast' = [toast EXCEPT ![s] = "Failed to update working hours"]
            /\ UNCHANGED <<db_working_hours, workingHours>>
  /\ UNCHANGED <<dbvars, payrolls, loading, showBankSelectionDialog,
                 selectedPayrollForPayment, hvars, rvars, page, formData>>

\* .from('working_hours').delete().eq('id', id)
DeleteWorkingHour(table, id) ==
  SelectSeq(table, LAMBDA wh : wh.id # id)

\* handleDelete(id), confirmed, behind the Delete button every listed row has.
handleDelete(s, i) ==
  /\ page[s] = "working_hours"
  /\ \E ok \in BOOLEAN :
       IF ok
       THEN /\ db_working_hours' = DeleteWorkingHour(db_working_hours, workingHours[s][i].id)
            /\ toast' = [toast EXCEPT ![s] = "Working hours record deleted successfully"]
            /\ workingHours' = [workingHours EXCEPT ![s] = db_working_hours']
       ELSE /\ toast' = [toast EXCEPT ![s] = "Failed to delete working hours record"]
            /\ UNCHANGED <<db_working_hours, workingHours>>
  /\ UNCHANGED <<dbvars, payrolls, loading, showBankSelectionDialog,
                 selectedPayrollForPayment, hvars, rvars, page, formData>>

\* Reviewing, editing and deleting working hours.
NextEdit ==
  \E s \in Sessions :
    \/ OpenWorkingHoursPage(s)
    \/ \E i \in DOMAIN workingHours[s], status \in {"approved", "rejected"} :
         handleUpdateStatus(s, i, status)
    \/ \E i \in DOMAIN workingHours[s], hours \in EditedHours :
         handleEditSubmit(s, i, hours)
    \/ \E i \in DOMAIN workingHours[s] : handleDelete(s, i)

\* The sessions start on the payroll page; entry 1 is approved, entries 2 and
\* 3 are pending, and entries 1 and 2 fall in the period of the paid record.
InitEdit ==
  /\ InitPaidStore
  /\ db_working_hours = InitialWorkingHours("pending", "pending")
  /\ workingHours = [s \in Sessions |-> fetchWorkingHours(db_working_hours)]

SpecEdit == InitEdit /\ [][NextEdit]_vars

\* ------------------------------------------------------ roster actions
\* The roster props RosterActions is mounted with.
RosterProps == [id : {1, 2}, status : {"confirmed", "cancelled"}]

\* Column roster_id of a working-hour row: entries 1 and 2 are linked to
\* roster 1, entry 3 to roster 2.
RosterIdOf(wh) == IF wh.id = 3 THEN 2 ELSE 1

\* .from('working_hours').select('id').eq('roster_id', roster.id)
\* .in('status', ['approved', 'paid']).limit(1), and data && data.length > 0
hasApprovedOrPaid(table, rosterId) ==
  \E i \in DOMAIN table :
    /\ RosterIdOf(table[i]) = rosterId
    /\ table[i].status \in {"approved", "paid"}

\* Mounting RosterActions for a roster, in place of PayrollComponent:
\* useState(true), and the effect starts checkRosterEditability.
MountRosterActions(s, r) ==
  /\ page[s] = "payroll"
  /\ pc[s] = "idle"
  /\ page' = [page EXCEPT ![s] = "rosters"]
  /\ roster' = [roster EXCEPT ![s] = r]
  /\ isEditable' = [isEditable EXCEPT ![s] = TRUE]
  /\ checking' = [checking EXCEPT ![s] = TRUE]
  /\ formData' = [formData EXCEPT ![s] = InitialFormData]
  /\ showBankSelectionDialog' = [showBankSelectionDialog EXCEPT ![s] = FALSE]
  /\ selectedPayrollForPayment' = [selectedPayrollForPayment EXCEPT ![s] = NullPayroll]
  /\ UNCHANGED <<dbvars, payrolls, loading, toast, hvars, db_working_hours, workingHours>>

\* checkRosterEditability when its select returns: setIsEditable on data, a
\* logged return on error.
checkRosterEditability(s) ==
  /\ page[s] = "rosters"
  /\ checking[s]
  /\ checking' = [checking EXCEPT ![s] = FALSE]
  /\ \E ok \in BOOLEAN :
       isEditable' = [isEditable EXCEPT ![s] =
         IF ok THEN ~hasApprovedOrPaid(db_working_hours, roster[s].id) ELSE isEditable[s]]
  /\ UNCHANGED <<dbvars, uivars, hvars, db_working_hours, page, workingHours, formData,
                 roster>>

\* const canEditDelete = roster.status !== 'cancelled' && isEditable: the
\* action list holds Edit and Delete.
canEditDelete(s) ==
  /\ roster[s].status # "cancelled"
  /\ isEditable[s]

\* Roster action lists beside the working-hours page.
NextRoster ==
  \E s \in Sessions :
    \/ \E r \in RosterProps : MountRosterActions(s, r)
    \/ checkRosterEditability(s)
    \/ OpenWorkingHoursPage(s)
    \/ \E i \in DOMAIN workingHours[s], status \in {"approved", "rejected"} :
         handleUpdateStatus(s, i, status)

SpecRoster == InitHours /\ [][NextRoster]_vars

\* ------------------------------------------------------------ properties
\* The ledger-derived balance of the data model: opening balance plus the
\* deposits minus the withdrawals of the rows that reference the account.
RowsOf(ledger, acct, type) ==
  { i \in 1..Len(ledger) : ledger[i].bank_account_id = acct /\ ledger[i].type = type }

RECURSIVE SumAmounts(_, _)
SumAmounts(ledger, rows) ==
  IF rows = {} THEN 0
  ELSE LET i == CHOOSE j \in rows : TRUE
       IN ledger[i].amount + SumAmounts(ledger, rows \ {i})

LedgerBalance(acct) ==
  db_bank_accounts[acct].opening_balance
    + SumAmounts(db_bank_transactions, RowsOf(db_bank_transactions, acct, "deposit"))
    - SumAmounts(db_bank_transactions, RowsOf(db_bank_transactions, acct, "withdrawal"))

\* The salary withdrawals of the ledger made for payroll record id: the rows
\* carry no payroll id, the worker and the pay period identify the record.
SalaryWithdrawals(id) ==
  Cardinality({ i \in 1..Len(db_bank_transactions) :
      /\ db_bank_transactions[i].type = "withdrawal"
      /\ db_bank_transactions[i].category = "salary"
      /\ db_bank_transactions[i].profile_id = db_payroll[id].profile_id
      /\ db_bank_transactions[i].description =
           <<db_payroll[id].profile_id, db_payroll[id].pay_period_start,
             db_payroll[id].pay_period_end>> })

\* C1: the balance Pay computes and compares against the net pay is the
\* ledger-derived balance of the chosen account: its opening balance plus its
\* deposits minus its withdrawals, over the rows of that account only.  On
\* the step that answers the ledger read, a payment that goes on holds this
\* value in currentBalance, and a payment turned down for insufficient
\* balance had this value below the net pay.
C1_ComputedBalanceIsLedgerDerived ==
  [][\A s \in Sessions :
       (pc[s] = "transactions" /\ pc'[s] # "transactions") =>
         /\ pc'[s] = "insert" =>
              /\ currentBalance'[s] = LedgerBalance(bankAccountId[s])
              /\ LedgerBalance(bankAccountId[s]) >= payroll[s].net_pay
         /\ (pc'[s] = "idle" /\ toast'[s] = "Insufficient Balance") =>
              LedgerBalance(bankAccountId[s]) < payroll[s].net_pay]_vars

\* A payment past the funds check on a ledger that holds a deposit and a
\* withdrawal of the chosen account and a row of another account.
C1_Witness ==
  \E s \in Sessions :
    /\ pc[s] = "insert"
    /\ currentBalance[s] = LedgerBalance(bankAccountId[s])
    /\ RowsOf(db_bank_transactions, bankAccountId[s], "deposit") # {}
    /\ RowsOf(db_bank_transactions, bankAccountId[s], "withdrawal") # {}
    /\ \E i \in 1..Len(db_bank_transactions) :
         db_bank_transactions[i].bank_account_id # bankAccountId[s]

\* C2: concurrent Pay calls against one account never overdraw it: the
\* ledger-derived balance of every account stays non-negative (it starts
\* non-negative and only Pay withdraws).
C2_BalanceNeverNegative ==
  \A a \in AccountIds : LedgerBalance(a) >= 0

\* C3: Pay is serializable per account: two calls on different payroll records
\* and the same account are never both past the funds check, with their
\* withdrawals still to come, on a balance that cannot honour both.
C3_NoDoubleSpend ==
  \A s, t \in Sessions :
    ( /\ s # t
      /\ pc[s] = "insert" /\ pc[t] = "insert"
      /\ bankAccountId[s] = bankAccountId[t]
      /\ payroll[s].id # payroll[t].id )
    => LedgerBalance(bankAccountId[s]) >= payroll[s].net_pay + payroll[t].net_pay

\* C4: two concurrent Pay calls on the same payroll record are mutually
\* exclusive: they never both get past the ledger append.
C4_OneWithdrawalPerRace ==
  \A s, t \in Sessions :
    ( /\ s # t
      /\ pc[s] \in {"update", "notify"}
      /\ pc[t] \in {"update", "notify"} )
    => payroll[s].id # payroll[t].id

\* C5: no step appends a salary withdrawal for a payroll record whose stored
\* status is already paid.
C5_NoWithdrawalOncePaid ==
  [][\A id \in PayrollIds :
       db_payroll[id].status = "paid" =>
         SalaryWithdrawals(id)' = SalaryWithdrawals(id)]_vars

\* C6: when a Pay call ends and no other payment is in flight, the payroll
\* record it was for has a salary withdrawal if and only if it is paid.
C6_LedgerAndStatusTogether ==
  [][\A s \in Sessions, id \in PayrollIds :
       ( /\ pc[s] # "idle" /\ pc'[s] = "idle"
         /\ payroll[s].id = id
         /\ \A t \in Sessions \ {s} : pc[t] = "idle" )
       => ( (SalaryWithdrawals(id) > 0)' <=> (db_payroll[id].status = "paid")' )]_vars

\* C7: on the step that answers the ledger read, a balance below the net pay
\* ends the payment with the Insufficient Balance toast (or the error toast of
\* a failed read) and changes nothing in the store, the selected payroll
\* included; the payment is turned down for insufficient balance only then,
\* so a balance equal to the net pay is not rejected.
C7_InsufficientFundsMutatesNothing ==
  [][\A s \in Sessions :
       (pc[s] = "transactions" /\ pc'[s] # "transactions") =>
         LET short == LedgerBalance(bankAccountId[s]) < db_payroll[payroll[s].id].net_pay
         IN /\ short =>
                 /\ pc'[s] = "idle"
                 /\ toast'[s] \in {"Insufficient Balance", "Failed to process payment"}
                 /\ UNCHANGED dbvars
                 /\ db_payroll'[payroll[s].id].status = db_payroll[payroll[s].id].status
                 /\ db_payroll'[payroll[s].id].bank_account_id =
                      db_payroll[payroll[s].id].bank_account_id
            /\ (pc'[s] = "idle" /\ toast'[s] = "Insufficient Balance") => short
            /\ ~short =>
                 \/ pc'[s] = "insert"
                 \/ pc'[s] = "idle" /\ toast'[s] = "Failed to process payment"]_vars

\* One session turned down for insufficient balance with its record still
\* approved and nothing written, another past the funds check on a balance
\* equal to its net pay.
C7_Witness ==
  \E s, t \in Sessions :
    /\ pc[s] = "idle" /\ toast[s] = "Insufficient Balance"
    /\ selectedPayrollForPayment[s] # NullPayroll
    /\ db_payroll[selectedPayrollForPayment[s].id].status = "approved"
    /\ SalaryWithdrawals(selectedPayrollForPayment[s].id) = 0
    /\ db_notifications = <<>>
    /\ pc[t] = "insert"
    /\ currentBalance[t] = payroll[t].net_pay

\* C8: a Pay that runs without interference and gets past the funds check on
\* balance b for net pay p appends exactly one row, a salary withdrawal of p
\* against the chosen account, which leaves the ledger-derived balance at
\* b - p, and then sets the record to paid with the chosen account; after the
\* status write the record is paid by that account and the balance is b - p.
C8_SuccessfulPay ==
  /\ [](\A s \in Sessions :
          pc[s] = "notify" =>
            /\ db_payroll[payroll[s].id].status = "paid"
            /\ db_payroll[payroll[s].id].bank_account_id = bankAccountId[s]
            /\ LedgerBalance(bankAccountId[s])
                 = currentBalance[s] - db_payroll[payroll[s].id].net_pay)
  /\ [][\A s \in Sessions :
          /\ (pc[s] = "insert" /\ pc'[s] = "update") =>
               LET n == Len(db_bank_transactions)
                   row == db_bank_transactions'[n + 1]
               IN /\ Len(db_bank_transactions') = n + 1
                  /\ SubSeq(db_bank_transactions', 1, n) = db_bank_transactions
                  /\ row.type = "withdrawal"
                  /\ row.category = "salary"
                  /\ row.amount = db_payroll[payroll[s].id].net_pay
                  /\ row.bank_account_id = bankAccountId[s]
                  /\ currentBalance[s] = LedgerBalance(bankAccountId[s])
                  /\ currentBalance[s] >= row.amount
                  /\ UNCHANGED db_payroll
          /\ (pc[s] \in {"update", "notify"} /\ pc'[s] # pc[s]) =>
               UNCHANGED db_bank_transactions
          /\ (pc[s] = "notify" /\ pc'[s] = "idle") =>
               /\ toast'[s] = "Payment processed successfully"
               /\ UNCHANGED db_payroll]_vars

\* A payment that ran alone, past its status write.
C8_Witness ==
  \E s \in Sessions :
    /\ pc[s] = "notify"
    /\ db_payroll[payroll[s].id].status = "paid"
    /\ db_payroll[payroll[s].id].bank_account_id = bankAccountId[s]
    /\ SalaryWithdrawals(payroll[s].id) = 1
    /\ LedgerBalance(bankAccountId[s]) = currentBalance[s] - payroll[s].net_pay

\* C9: the stored status of a payroll record only moves pending -> approved
\* -> paid: no step skips a state or moves backward.
C9_StatusMovesForward ==
  [][\A id \in PayrollIds :
       \/ db_payroll'[id].status = db_payroll[id].status
       \/ db_payroll[id].status = "pending" /\ db_payroll'[id].status = "approved"
       \/ db_payroll[id].status = "approved" /\ db_payroll'[id].status = "paid"]_vars

\* C10: ApprovePayroll succeeds only on a record whose stored status is
\* pending: a step that shows the approved toast moved some record from
\* pending to approved.
C10_ApproveOnlyPending ==
  [][\A s \in Sessions :
       ( /\ toast'[s] = "Payroll approved successfully"
         /\ toast[s] # "Payroll approved successfully" )
       => \E id \in PayrollIds :
            /\ db_payroll[id].status = "pending"
            /\ db_payroll'[id].status = "approved"]_vars

C12_NotificationFailureIsLogged ==
  [][\A s \in Sessions :
       ( /\ pc[s] = "notify" /\ pc'[s] = "idle"
         /\ db_notifications' = db_notifications )
       => /\ toast'[s] = "Payment processed successfully"
          /\ ~showBankSelectionDialog'[s]
          /\ ~loading'[s]
          /\ UNCHANGED <<db_payroll, db_bank_transactions, db_bank_accounts>>]_vars

\* A payment that ended in success with its withdrawal in the ledger and its
\* record paid, and no notification about the record.
C12_Witness ==
  \E s \in Sessions, id \in PayrollIds :
    /\ pc[s] = "idle"
    /\ toast[s] = "Payment processed successfully"
    /\ db_payroll[id].status = "paid"
    /\ SalaryWithdrawals(id) = 1
    /\ db_notifications = <<>>

\* C13: the notification comes after the ledger append and the status write.
\* The notification table changes only by the append of one row, by a payment
\* that stands after its status write; that position is entered only by a
\* successful status write, which follows the ledger append; a payment that
\* ends at the funds check, the ledger append or the status write leaves the
\* table alone.  The row is addressed to the worker of the record, with type
\* salary_paid, and its related id is the record's id.
C13_NotificationAfterLedgerAndStatus ==
  [][/\ db_notifications' # db_notifications =>
          \E s \in Sessions, id \in PayrollIds :
            /\ pc[s] = "notify" /\ pc'[s] = "idle"
            /\ payroll[s].id = id
            /\ SalaryWithdrawals(id) >= 1
            /\ Len(db_notifications') = Len(db_notifications) + 1
            /\ SubSeq(db_notifications', 1, Len(db_notifications)) = db_notifications
            /\ LET row == db_notifications'[Len(db_notifications')]
               IN /\ row.type = "salary_paid"
                  /\ row.recipient_profile_id = db_payroll[id].profile_id
                  /\ row.related_id = id
     /\ \A s \in Sessions :
          /\ (pc'[s] = "notify" /\ pc[s] # "notify") =>
               /\ pc[s] = "update"
               /\ db_payroll'[payroll[s].id].status = "paid"
               /\ SalaryWithdrawals(payroll[s].id) >= 1
          /\ (pc'[s] = "update" /\ pc[s] # "update") =>
               /\ pc[s] = "insert"
               /\ Len(db_bank_transactions') = Len(db_bank_transactions) + 1
          /\ (pc[s] \in {"bank_accounts", "transactions", "insert", "update"}
                /\ pc'[s] = "idle") =>
               UNCHANGED db_notifications]_vars

\* A notification in the table, about a record that has its withdrawal, while
\* another payment has ended with nothing written.
C13_Witness ==
  /\ Len(db_notifications) = 1
  /\ SalaryWithdrawals(db_notifications[1].related_id) >= 1
  /\ db_notifications[1].recipient_profile_id
       = db_payroll[db_notifications[1].related_id].profile_id
  /\ \E s \in Sessions : toast[s] \in {"Insufficient Balance", "Failed to process payment"}

\* C14: CreatePayroll refuses negative hours, a negative rate, negative
\* deductions and deductions above the gross pay: no stored payroll record has
\* one of them, nor a negative net pay.
C14_StoredAmountsValid ==
  \A id \in DOMAIN db_payroll :
    /\ db_payroll[id].total_hours >= 0
    /\ db_payroll[id].hourly_rate >= 0
    /\ db_payroll[id].deductions >= 0
    /\ db_payroll[id].deductions <= db_payroll[id].gross_pay
    /\ db_payroll[id].net_pay >= 0

\* C15: every stored payroll record has its period start on or before its
\* period end.
C15_PeriodStartNotAfterEnd ==
  \A id \in DOMAIN db_payroll :
    db_payroll[id].pay_period_start <= db_payroll[id].pay_period_end

\* C16: every stored payroll record has gross pay = total hours x hourly rate
\* and net pay = gross pay - deductions; a record enters the table with status
\* pending and the values of the form; no step changes the hours, the rate,
\* the gross pay, the deductions or the net pay of a stored record.
C16_GrossAndNetOfStoredRecords ==
  /\ [](\A id \in DOMAIN db_payroll :
          /\ db_payroll[id].gross_pay = db_payroll[id].total_hours * db_payroll[id].hourly_rate
          /\ db_payroll[id].net_pay = db_payroll[id].gross_pay - db_payroll[id].deductions)
  /\ [][/\ \A id \in DOMAIN db_payroll :
            /\ id \in DOMAIN db_payroll'
            /\ db_payroll'[id].total_hours = db_payroll[id].total_hours
            /\ db_payroll'[id].hourly_rate = db_payroll[id].hourly_rate
            /\ db_payroll'[id].gross_pay = db_payroll[id].gross_pay
            /\ db_payroll'[id].deductions = db_payroll[id].deductions
            /\ db_payroll'[id].net_pay = db_payroll[id].net_pay
       /\ \A id \in DOMAIN db_payroll' \ DOMAIN db_payroll :
            /\ db_payroll'[id].status = "pending"
            /\ \E s \in Sessions :
                 /\ db_payroll'[id].total_hours = formData[s].total_hours
                 /\ db_payroll'[id].hourly_rate = formData[s].hourly_rate
                 /\ db_payroll'[id].deductions = formData[s].deductions
                 /\ db_payroll'[id].gross_pay
                      = formData[s].total_hours * formData[s].hourly_rate
                 /\ db_payroll'[id].net_pay
                      = formData[s].total_hours * formData[s].hourly_rate
                          - formData[s].deductions]_vars

\* A record created from a form with hours, a rate and deductions, since
\* approved and paid.
C16_Witness ==
  \E id \in DOMAIN db_payroll \ {1} :
    /\ db_payroll[id].status = "paid"
    /\ db_payroll[id].total_hours > 0
    /\ db_payroll[id].hourly_rate > 0
    /\ db_payroll[id].deductions = 1
    /\ SalaryWithdrawals(id) = 1

\* C17: no two payroll records of the same worker have overlapping pay
\* periods.
C17_NoOverlappingPeriods ==
  \A i, j \in DOMAIN db_payroll :
    (i # j /\ db_payroll[i].profile_id = db_payroll[j].profile_id) =>
      \/ db_payroll[i].pay_period_end < db_payroll[j].pay_period_start
      \/ db_payroll[j].pay_period_end < db_payroll[i].pay_period_start

\* The entries of a working-hour list that belong to worker w and whose date
\* lies in [start, end], both bounds included, and sums over them.
EntriesInRange(list, w, start, end) ==
  { i \in 1..Len(list) :
      list[i].profile_id = w /\ start <= list[i].date /\ list[i].date <= end }

RECURSIVE SumOfHours(_, _)
SumOfHours(list, entries) ==
  IF entries = {} THEN 0
  ELSE LET i == CHOOSE j \in entries : TRUE
       IN list[i].total_hours + SumOfHours(list, entries \ {i})

RECURSIVE SumOfHoursTimesRate(_, _)
SumOfHoursTimesRate(list, entries) ==
  IF entries = {} THEN 0
  ELSE LET i == CHOOSE j \in entries : TRUE
       IN list[i].total_hours * list[i].hourly_rate
            + SumOfHoursTimesRate(list, entries \ {i})

\* A create form whose worker and period are set, so that the aggregation has
\* filled in its hours and rate.
FormComplete(s) ==
  /\ page[s] = "payroll"
  /\ formData[s].profile_id # NoProfile
  /\ formData[s].pay_period_start # NoDate
  /\ formData[s].pay_period_end # NoDate

FormEntries(s) ==
  EntriesInRange(workingHours[s], formData[s].profile_id,
                 formData[s].pay_period_start, formData[s].pay_period_end)

\* C18: the aggregated rate of a form is the hours-weighted mean of the rates
\* of its entries, rate x sum(hours) = sum(hours x rate), and 0 when there are
\* no entries (5 h at 20 and 3 h at 30 give 23.75: 23.75 x 8 = 190).
C18_RateIsHoursWeightedMean ==
  \A s \in Sessions :
    FormComplete(s) =>
      IF FormEntries(s) = {}
      THEN formData[s].hourly_rate = 0
      ELSE formData[s].hourly_rate * SumOfHours(workingHours[s], FormEntries(s))
             = SumOfHoursTimesRate(workingHours[s], FormEntries(s))

\* C19: the aggregated total hours of a form are the sum of the hours of
\* exactly the listed entries of its worker with start <= date <= end; and a
\* step that fills in a form writes nothing to the store.
C19_TotalHoursOfWorkerInRange ==
  /\ [](\A s \in Sessions :
          FormComplete(s) =>
            formData[s].total_hours = SumOfHours(workingHours[s], FormEntries(s)))
  /\ [][(\E s \in Sessions :
            formData'[s] # formData[s] /\ formData'[s] # InitialFormData)
        => UNCHANGED <<dbvars, db_working_hours>>]_vars

\* A form for worker 1 and the single day 15: the entry of day 15 counts (3 h),
\* the worker's entry of day 11 and the other worker's entry of day 15, both
\* in the list, do not.
C19_Witness ==
  \E s \in Sessions :
    /\ FormComplete(s)
    /\ formData[s].profile_id = 1
    /\ formData[s].pay_period_start = 15
    /\ formData[s].pay_period_end = 15
    /\ formData[s].total_hours = 3
    /\ Len(workingHours[s]) = 3

\* C20: only approved entries are aggregated: when a payroll record is
\* created, every entry that counted towards its hours and rate has status
\* approved in the store.
C20_OnlyApprovedEntriesCount ==
  [][\A s \in Sessions :
       ( /\ db_payroll' # db_payroll
         /\ FormComplete(s)
         /\ formData'[s] = InitialFormData )
       => \A i \in FormEntries(s) :
            \A j \in DOMAIN db_working_hours :
              db_working_hours[j].id = workingHours[s][i].id =>
                db_working_hours[j].status = "approved"]_vars

\* C21: every salary withdrawal of the ledger carries a reference to the
\* payroll record it pays: a payroll id among its fields, naming a record of
\* the payroll table.
C21_WithdrawalNamesPayrollId ==
  \A i \in 1..Len(db_bank_transactions) :
    db_bank_transactions[i].category = "salary" =>
      /\ "payroll_id" \in DOMAIN db_bank_transactions[i]
      /\ db_bank_transactions[i].payroll_id \in DOMAIN db_payroll

\* C22: the ledger is append-only: a step leaves it as it is or appends one
\* row, every row it had staying in place with all its fields.
C22_LedgerAppendOnly ==
  [][\/ db_bank_transactions' = db_bank_transactions
     \/ /\ Len(db_bank_transactions') = Len(db_bank_transactions) + 1
        /\ SubSeq(db_bank_transactions', 1, Len(db_bank_transactions))
             = db_bank_transactions]_vars

\* The ledger of three rows the sessions started from, with the salary
\* withdrawals of two payments after them.
C22_Witness ==
  /\ Len(db_bank_transactions) = 5
  /\ SubSeq(db_bank_transactions, 1, 3) \in InitialLedgers
  /\ db_bank_transactions[4].category = "salary"
  /\ db_bank_transactions[5].category = "salary"

\* C23: paid is terminal: no step changes the status or the paying account
\* of a record whose stored status is paid.
C23_PaidIsTerminal ==
  [][\A id \in PayrollIds :
       db_payroll[id].status = "paid" =>
         /\ db_payroll'[id].status = "paid"
         /\ db_payroll'[id].bank_account_id = db_payroll[id].bank_account_id]_vars

\* A working-hour entry that is no longer pending, or that falls in the period
\* of a paid payroll record of its worker.
Settled(wh) ==
  \/ wh.status # "pending"
  \/ \E id \in DOMAIN db_payroll :
       /\ db_payroll[id].status = "paid"
       /\ db_payroll[id].profile_id = wh.profile_id
       /\ db_payroll[id].pay_period_start <= wh.date
       /\ wh.date <= db_payroll[id].pay_period_end

\* C24: no step deletes a settled working-hour entry or changes its date,
\* hours or rate.
C24_SettledEntriesKeepTheirData ==
  [][\A i \in 1..Len(db_working_hours) :
       Settled(db_working_hours[i]) =>
         \E j \in 1..Len(db_working_hours') :
           /\ db_working_hours'[j].id = db_working_hours[i].id
           /\ db_working_hours'[j].date = db_working_hours[i].date
           /\ db_working_hours'[j].total_hours = db_working_hours[i].total_hours
           /\ db_working_hours'[j].hourly_rate = db_working_hours[i].hourly_rate]_vars

\* The fields of a payroll record that creating it computes or copies.
ComputedFields(p) ==
  <<p.id, p.profile_id, p.pay_period_start, p.pay_period_end, p.total_hours,
    p.hourly_rate, p.gross_pay, p.deductions, p.net_pay>>

\* C25: a step that writes the payroll table changes one record, and of it
\* the status alone when the status becomes approved, the status and the bank
\* account reference alone when it becomes paid; hours, rate, gross pay,
\* deductions, net pay and pay period stay as they are.
C25_ApproveAndPayFrame ==
  [][\A id \in PayrollIds :
       /\ ComputedFields(db_payroll'[id]) = ComputedFields(db_payroll[id])
       /\ db_payroll'[id] # db_payroll[id] =>
            /\ \A other \in PayrollIds \ {id} : db_payroll'[other] = db_payroll[other]
            /\ db_payroll'[id].status \in {"approved", "paid"}
            /\ db_payroll'[id].status = "approved" =>
                 db_payroll'[id].bank_account_id = db_payroll[id].bank_account_id]_vars

\* Record 1 has been approved and paid from an account while record 2 has been
\* approved and not paid.
C25_Witness ==
  /\ db_payroll[1].status = "paid"
  /\ db_payroll[1].bank_account_id \in AccountIds
  /\ db_payroll[2].status = "approved"
  /\ db_payroll[2].bank_account_id = NoAccount
  /\ \E i \in 1..Len(db_bank_transactions) :
       db_bank_transactions[i] = WithdrawalRow(db_payroll[1], db_payroll[1].bank_account_id)

\* C26: a payment call whose bank-account read, ledger read or ledger append
\* fails ends with the failure toast and the loading flag reset, and that
\* step, like every step of the call before it, writes nothing to the store:
\* no ledger row, no payroll status, no notification.  The read of an account
\* id the table does not hold is such a failure.
C26_FailedPayWritesNothing ==
  [][\A s \in Sessions :
       /\ ( /\ pc[s] \in {"bank_accounts", "transactions", "insert"}
            /\ pc'[s] = "idle"
            /\ toast'[s] = "Failed to process payment" )
          => /\ db_bank_transactions' = db_bank_transactions
             /\ db_payroll' = db_payroll
             /\ db_notifications' = db_notifications
             /\ ~loading'[s]
       /\ ( pc[s] \in {"bank_accounts", "transactions"} /\ pc'[s] # pc[s] )
          => /\ db_bank_transactions' = db_bank_transactions
             /\ db_payroll' = db_payroll
             /\ db_notifications' = db_notifications
       /\ ( /\ pc[s] = "bank_accounts"
            /\ bankAccountId[s] \notin DOMAIN db_bank_accounts
            /\ pc'[s] # pc[s] )
          => /\ pc'[s] = "idle"
             /\ toast'[s] = "Failed to process payment"]_vars

\* One session's payment has failed, the store as it started, while the other
\* session's payment is about to read an account the table does not hold.
C26_Witness ==
  \E s, t \in Sessions :
    /\ pc[s] = "idle"
    /\ toast[s] = "Failed to process payment"
    /\ ~loading[s]
    /\ pc[t] = "bank_accounts"
    /\ bankAccountId[t] = MissingAccount
    /\ \A i \in 1..Len(db_bank_transactions) : db_bank_transactions[i].category # "salary"
    /\ \A id \in PayrollIds : db_payroll[id].status # "paid"
    /\ db_notifications = <<>>

\* C27: the step of a payment that appends the withdrawal appends a row whose
\* amount is the net pay the payroll table holds for the record at that
\* moment, whatever other sessions did since the payment dialog was opened.
C27_WithdrawalIsStoredNetPay ==
  [][\A s \in Sessions :
       (pc[s] = "insert" /\ pc'[s] = "update") =>
         /\ Len(db_bank_transactions') = Len(db_bank_transactions) + 1
         /\ db_bank_transactions'[Len(db_bank_transactions')].category = "salary"
         /\ db_bank_transactions'[Len(db_bank_transactions')].amount
              = db_payroll[payroll[s].id].net_pay
         /\ db_payroll'[payroll[s].id].net_pay = db_payroll[payroll[s].id].net_pay]_vars

\* A session has appended the withdrawal of a record that another session
\* paid after the first one's dialog was opened: its snapshot shows the record
\* as approved, the table as paid.
C27_Witness ==
  \E s \in Sessions :
    /\ pc[s] = "update"
    /\ payroll[s].status = "approved"
    /\ db_payroll[payroll[s].id].status = "paid"
    /\ db_bank_transactions[Len(db_bank_transactions)]
         = WithdrawalRow(payroll[s], bankAccountId[s])
    /\ db_bank_transactions[Len(db_bank_transactions)].amount
         = db_payroll[payroll[s].id].net_pay

\* C28: the loading flag of a session is true for as long as its payment is
\* in flight and false when the payment handler has returned, whichever way
\* it returns; while the payment is in flight the session takes no Approve
\* and no Mark Paid action.
C28_LoadingGuardsPayment ==
  /\ [](\A s \in Sessions : pc[s] # "idle" => loading[s])
  /\ [][\A s \in Sessions :
          /\ (pc[s] # "idle" /\ pc'[s] = "idle") => ~loading'[s]
          /\ pc[s] # "idle" =>
               /\ \A id \in PayrollIds : ~ApprovePayroll(s, id)
               /\ \A p \in PayrollIds : ~MarkAsPaid(s, p)]_vars

\* C29: the step that ends a payment in success closes the bank selection
\* dialog and clears the selected payroll; the step that ends it on
\* insufficient balance or on a store error leaves both as they are; and
\* where no payroll is selected, the handler, called with any account, has
\* no step that changes anything.
C29_DialogFollowsOutcome ==
  /\ [](\A s \in Sessions :
          (pc[s] = "idle" /\ selectedPayrollForPayment[s] = NullPayroll) =>
            ~ENABLED (\E b \in AccountIds : handleConfirmPayment(s, b) /\ vars' # vars))
  /\ [][\A s \in Sessions :
          (pc[s] # "idle" /\ pc'[s] = "idle") =>
            /\ toast'[s] \in {"Payment processed successfully", "Insufficient Balance",
                              "Failed to process payment"}
            /\ toast'[s] = "Payment processed successfully" =>
                 /\ ~showBankSelectionDialog'[s]
                 /\ selectedPayrollForPayment'[s] = NullPayroll
            /\ toast'[s] # "Payment processed successfully" =>
                 /\ showBankSelectionDialog'[s] = showBankSelectionDialog[s]
                 /\ selectedPayrollForPayment'[s] = selectedPayrollForPayment[s]]_vars

\* One session's payment has ended on insufficient balance, its dialog open
\* on the payroll it selected; the other's has succeeded, its dialog closed
\* and its selection cleared.
C29_Witness ==
  \E s, t \in Sessions :
    /\ pc[s] = "idle"
    /\ toast[s] = "Insufficient Balance"
    /\ showBankSelectionDialog[s]
    /\ selectedPayrollForPayment[s] # NullPayroll
    /\ pc[t] = "idle"
    /\ toast[t] = "Payment processed successfully"
    /\ ~showBankSelectionDialog[t]
    /\ selectedPayrollForPayment[t] = NullPayroll

\* C30: whenever a session's roster action list holds Edit and Delete, the
\* roster is not cancelled and no working-hour entry linked to it is approved
\* or paid, the editability check having returned or not, with data or with
\* an error.
C30_EditDeleteOnlyWhenEditable ==
  \A s \in Sessions :
    (page[s] = "rosters" /\ canEditDelete(s)) =>
      /\ roster[s].status # "cancelled"
      /\ ~hasApprovedOrPaid(db_working_hours, roster[s].id)

====
